---------------------------- MODULE Spec2Model ----------------------------
(***************************************************************************)
(* HyperLiquidAPI.processCompletedTrades (lib/hyperliquid-api): the        *)
(* reconstruction of completed round-trip trades from a list of fills;     *)
(* HyperLiquidAPI.convertOrderBook: the depth view of a book snapshot;     *)
(* the order book state of the OrderBook page that displays it; and the    *)
(* WebSocket client of HyperLiquidAPI: connectWebSocket, its handlers,     *)
(* reconnect and disconnect.                                               *)
(*                                                                         *)
(* Numbers.  Sizes and PnL are JavaScript numbers obtained with            *)
(* parseFloat.  The model keeps them as fixed-point integers, one unit     *)
(* being 0.00005, so that the tolerance 0.0001 of the closing test is 2    *)
(* units and sizes below, at and above the tolerance all occur.  NaN is a  *)
(* separate value that propagates through the arithmetic and fails every   *)
(* comparison, as in IEEE 754.  Rounding error of binary floating point is *)
(* not modelled: the inputs stand for values whose sums are exact.         *)
(*                                                                         *)
(* Timestamps are integer milliseconds.  Date.toLocaleString renders a     *)
(* time to whole seconds, and the duration is rendered as whole hours and  *)
(* minutes; both renderings are modelled by what they keep.                *)
(***************************************************************************)
EXTENDS Integers, Sequences, FiniteSets, TLC

VARIABLES fills, pc, coinMap, ci, fi,
          positionSize, openTime, totalPnL, positionDirection,
          completedTrades,
          calls, previous,
          snapshot, precision, cpc, converted,
          orderBook, pagePc, delivered,
          ws, currentCoin, reconnectAttempts, sockets,
          reconnectTimers, retryTimers,
          wanted, effect, quiet, created, clientCalls, opens

\* processCompletedTrades: its argument, its control position and its locals
tradeVars == <<fills, pc, coinMap, ci, fi,
               positionSize, openTime, totalPnL, positionDirection,
               completedTrades>>
\* the caller of processCompletedTrades: calls made, result of the first
callVars == <<calls, previous>>
\* convertOrderBook: its arguments, its control position and its result
bookVars == <<snapshot, precision, cpc, converted>>
\* the OrderBook page: the orderBook state, the position of its handlers, and
\* the snapshots its update callback has received since it was registered
pageVars == <<orderBook, pagePc, delivered>>
\* an instance of HyperLiquidAPI: its fields ws, currentCoin and
\* reconnectAttempts, the WebSocket objects it has created, and the timers it
\* has set and that have not fired.  wanted is the coin of the client's last
\* call (none after disconnect), effect what the last handler did, quiet
\* whether the client has made its last call, created the number of sockets
\* created since, clientCalls and opens the calls and open events so far.
socketVars == <<ws, currentCoin, reconnectAttempts, sockets,
                reconnectTimers, retryTimers,
                wanted, effect, quiet, created, clientCalls, opens>>

vars == <<tradeVars, callVars, bookVars, pageVars, socketVars>>

(***************************************************************************)
(* Bounds of the model.                                                    *)
(***************************************************************************)
MaxFills == 3
MaxRawFills == 2
MaxLevels == 2
MaxDeliveries == 3

(***************************************************************************)
(* Program constants.                                                      *)
(***************************************************************************)
\* Math.abs(positionSize) < 0.0001, in units of 0.00005
Epsilon == 2
\* let openTime: number | null = null
NoTime == -1

(***************************************************************************)
(* JavaScript numbers: an integer number of units, or NaN.                 *)
(***************************************************************************)
Num(n) == [nan |-> FALSE, v |-> n]
NaN == [nan |-> TRUE, v |-> 0]

FAdd(a, b) == IF a.nan \/ b.nan THEN NaN ELSE Num(a.v + b.v)
FSub(a, b) == IF a.nan \/ b.nan THEN NaN ELSE Num(a.v - b.v)
\* a !== 0
FNonZero(a) == a.nan \/ a.v # 0
\* Math.abs(a) < e
FAbsLess(a, e) == ~a.nan /\ a.v < e /\ -a.v < e

(***************************************************************************)
(* Numeric text as it arrives from the provider.  "num" is a well-formed   *)
(* decimal, "prefixed" a decimal followed by other characters ("3abc"),    *)
(* "junk" a text with no leading decimal ("abc"), "empty" the empty text.  *)
(***************************************************************************)
NumText(n) == [kind |-> "num", v |-> n]
PrefixedText(n) == [kind |-> "prefixed", v |-> n]
JunkText == [kind |-> "junk", v |-> 0]
EmptyText == [kind |-> "empty", v |-> 0]

\* parseFloat: the longest leading decimal, NaN when there is none
ParseFloat(s) == IF s.kind \in {"num", "prefixed"} THEN Num(s.v) ELSE NaN
\* fill.closedPnl || '0': the empty text is falsy
OrZero(s) == IF s.kind = "empty" THEN NumText(0) ELSE s

(***************************************************************************)
(* Renderings.                                                             *)
(***************************************************************************)
\* new Date(t).toLocaleString(): date and time of day to the second
ToLocaleString(t) == t \div 1000
\* new Date(text).getTime(): the millisecond of the rendered second
DateParse(s) == s * 1000
\* `${durationHours}h ${durationMinutes}m`
FormatDuration(d) ==
  <<d \div (1000 * 60 * 60), (d % (1000 * 60 * 60)) \div (1000 * 60)>>

(***************************************************************************)
(* Grouping by coin: a Map keeps its keys in insertion order, and each     *)
(* coin's fills in input order.                                            *)
(***************************************************************************)
RECURSIVE GroupFrom(_, _, _)
GroupFrom(fs, i, m) ==
  IF i > Len(fs) THEN m
  ELSE LET f == fs[i]
           hit == {k \in 1..Len(m) : m[k].coin = f.coin}
       IN IF hit = {}
          THEN GroupFrom(fs, i + 1, Append(m, [coin |-> f.coin, fills |-> <<f>>]))
          ELSE LET k == CHOOSE x \in hit : TRUE
               IN GroupFrom(fs, i + 1,
                            [m EXCEPT ![k].fills = Append(@, f)])

GroupByCoin(fs) == GroupFrom(fs, 1, <<>>)

(***************************************************************************)
(* coinFills.sort((a, b) => a.time - b.time): stable, ascending by time.   *)
(***************************************************************************)
\* mutant: a sort that puts a fill before the fills of equal time
RECURSIVE InsertByTime_Unstable(_, _)
InsertByTime_Unstable(s, f) ==
  IF s = <<>> THEN <<f>>
  ELSE IF s[Len(s)].time < f.time THEN Append(s, f)
  ELSE Append(InsertByTime_Unstable(SubSeq(s, 1, Len(s) - 1), f), s[Len(s)])

RECURSIVE InsertByTime(_, _)
InsertByTime(s, f) ==
  IF s = <<>> THEN <<f>>
  ELSE IF s[Len(s)].time <= f.time THEN Append(s, f)
  ELSE Append(InsertByTime(SubSeq(s, 1, Len(s) - 1), f), s[Len(s)])

RECURSIVE SortByTime(_)
SortByTime(s) ==
  IF s = <<>> THEN <<>>
  ELSE InsertByTime(SortByTime(SubSeq(s, 1, Len(s) - 1)), s[Len(s)])

(***************************************************************************)
(* The final sort: descending by the time parsed back from the rendered    *)
(* opening time, stable.                                                   *)
(***************************************************************************)
RECURSIVE InsertByOpening(_, _)
InsertByOpening(s, t) ==
  IF s = <<>> THEN <<t>>
  ELSE IF DateParse(s[Len(s)].openingTime) >= DateParse(t.openingTime)
       THEN Append(s, t)
  ELSE Append(InsertByOpening(SubSeq(s, 1, Len(s) - 1), t), s[Len(s)])

RECURSIVE SortByOpening(_)
SortByOpening(s) ==
  IF s = <<>> THEN <<>>
  ELSE InsertByOpening(SortByOpening(SubSeq(s, 1, Len(s) - 1)), s[Len(s)])

(***************************************************************************)
(* The body of coinFills.forEach: one fill applied to the locals of the    *)
(* coin's scan.  acc holds positionSize, openTime, totalPnL,               *)
(* positionDirection and the trades pushed so far.  The fields openTime    *)
(* and closeTime of a pushed trade are not fields of the returned object:  *)
(* they record the values of openTime and fill.time at the push.           *)
(***************************************************************************)
Direction(acc, fill) ==
  IF acc.positionDirection = "null"
  THEN (IF fill.side = "B" THEN "long" ELSE "short")
  ELSE acc.positionDirection

Position(acc, fill) ==
  IF fill.side = "B" THEN FAdd(acc.positionSize, ParseFloat(fill.sz))
  ELSE FSub(acc.positionSize, ParseFloat(fill.sz))

\* mutant: the test positionSize !== 0 is dropped
Opened_WithoutPosition(acc, fill) ==
  IF acc.openTime = NoTime THEN fill.time ELSE acc.openTime

Opened(acc, fill) ==
  IF acc.openTime = NoTime /\ FNonZero(Position(acc, fill))
  THEN fill.time ELSE acc.openTime

\* mutant: totalPnL = closedPnl instead of totalPnL += closedPnl
PnL_Overwritten(acc, fill) == ParseFloat(OrZero(fill.closedPnl))

PnL(acc, fill) == FAdd(acc.totalPnL, ParseFloat(OrZero(fill.closedPnl)))

\* mutant: Math.abs(positionSize) <= 0.0001
Closes_AtTolerance(acc, fill) ==
  Opened(acc, fill) # NoTime /\ FAbsLess(Position(acc, fill), Epsilon + 1)

\* mutant: the test openTime !== null is dropped
Closes_WithoutOpen(acc, fill) == FAbsLess(Position(acc, fill), Epsilon)

Closes(acc, fill) ==
  Opened(acc, fill) # NoTime /\ FAbsLess(Position(acc, fill), Epsilon)

Trade(acc, fill, coin) ==
  [coin |-> coin,
   direction |-> Direction(acc, fill),
   openingTime |-> ToLocaleString(Opened(acc, fill)),
   duration |-> FormatDuration(fill.time - Opened(acc, fill)),
   realizedPnL |-> PnL(acc, fill),
   openTime |-> Opened(acc, fill),
   closeTime |-> fill.time]

FillStep(acc, fill, coin) ==
  IF Closes(acc, fill)
  THEN [positionSize |-> Position(acc, fill),
        openTime |-> NoTime,
        totalPnL |-> Num(0),
        positionDirection |-> "null",
        trades |-> Append(acc.trades, Trade(acc, fill, coin))]
  ELSE [positionSize |-> Position(acc, fill),
        openTime |-> Opened(acc, fill),
        totalPnL |-> PnL(acc, fill),
        positionDirection |-> Direction(acc, fill),
        trades |-> acc.trades]

\* the locals at the start of a coin's scan
FreshAcc(trades) ==
  [positionSize |-> Num(0), openTime |-> NoTime, totalPnL |-> Num(0),
   positionDirection |-> "null", trades |-> trades]

(***************************************************************************)
(* processCompletedTrades as a function of its input.                      *)
(***************************************************************************)
RECURSIVE ScanFrom(_, _, _, _)
ScanFrom(cf, i, acc, coin) ==
  IF i > Len(cf) THEN acc
  ELSE ScanFrom(cf, i + 1, FillStep(acc, cf[i], coin), coin)

RECURSIVE ScanCoins(_, _, _)
ScanCoins(m, k, trades) ==
  IF k > Len(m) THEN trades
  ELSE ScanCoins(m, k + 1,
         ScanFrom(SortByTime(m[k].fills), 1, FreshAcc(trades), m[k].coin).trades)

ProcessCompletedTrades(fs) ==
  IF Len(fs) = 0 THEN <<>>
  ELSE SortByOpening(ScanCoins(GroupByCoin(fs), 1, <<>>))

\* the object the caller receives for a pushed trade
Returned(t) ==
  [coin |-> t.coin, direction |-> t.direction, openingTime |-> t.openingTime,
   duration |-> t.duration, realizedPnL |-> t.realizedPnL]

ReturnedList(ts) == [i \in 1..Len(ts) |-> Returned(ts[i])]

(***************************************************************************)
(* convertOrderBook.  A level is [px, sz], both numeric texts; a snapshot  *)
(* is [coin, bids, asks], the two elements of levels.  Prices are even     *)
(* numbers of units, so that the half of a sum of two prices is exact.     *)
(* The result records whether the call threw: reading px of a level that   *)
(* is not there is a TypeError.                                            *)
(***************************************************************************)
\* a / 2
FHalf(a) == IF a.nan THEN NaN ELSE Num(a.v \div 2)

\* runningTotal after the first i orders
RECURSIVE RunningTotal(_, _)
RunningTotal(orders, i) ==
  IF i = 0 THEN Num(0)
  ELSE FAdd(RunningTotal(orders, i - 1), ParseFloat(orders[i].sz))

\* mutant: the unused formatOrder is mapped, total is the level's own size
FormatOrders_NoRunningTotal(orders) ==
  [i \in 1..Len(orders) |->
     [price |-> ParseFloat(orders[i].px),
      size |-> ParseFloat(orders[i].sz),
      total |-> ParseFloat(orders[i].sz)]]

FormatOrders(orders) ==
  [i \in 1..Len(orders) |->
     [price |-> ParseFloat(orders[i].px),
      size |-> ParseFloat(orders[i].sz),
      total |-> RunningTotal(orders, i)]]

\* mutant: the worst levels instead of the best
MidPrice_LastLevels(bids, asks) ==
  IF Len(bids) > 0 /\ Len(asks) > 0
  THEN [threw |-> FALSE,
        value |-> FHalf(FAdd(ParseFloat(bids[Len(bids)].px),
                             ParseFloat(asks[Len(asks)].px)))]
  ELSE [threw |-> FALSE, value |-> Num(0)]

\* mutant: || instead of &&, so that px of a missing level is read
MidPrice_EitherSide(bids, asks) ==
  IF Len(bids) > 0 \/ Len(asks) > 0
  THEN IF Len(bids) = 0 \/ Len(asks) = 0
       THEN [threw |-> TRUE, value |-> NaN]
       ELSE [threw |-> FALSE,
             value |-> FHalf(FAdd(ParseFloat(bids[1].px),
                                  ParseFloat(asks[1].px)))]
  ELSE [threw |-> FALSE, value |-> Num(0)]

MidPrice(bids, asks) ==
  IF Len(bids) > 0 /\ Len(asks) > 0
  THEN [threw |-> FALSE,
        value |-> FHalf(FAdd(ParseFloat(bids[1].px), ParseFloat(asks[1].px)))]
  ELSE [threw |-> FALSE, value |-> Num(0)]

ConvertOrderBook(book, prec) ==
  [threw |-> MidPrice(book.bids, book.asks).threw,
   bids |-> FormatOrders(book.bids),
   asks |-> FormatOrders(book.asks),
   midPrice |-> MidPrice(book.bids, book.asks).value]

\* the depth view the caller receives
View(r) == [bids |-> r.bids, asks |-> r.asks, midPrice |-> r.midPrice]

\* useState({ bids: [], asks: [], midPrice: 0 })
EmptyBook == [bids |-> <<>>, asks |-> <<>>, midPrice |-> Num(0)]
NoSnapshot == [coin |-> "X", bids |-> <<>>, asks |-> <<>>]

(***************************************************************************)
(* Inputs.                                                                 *)
(***************************************************************************)
SeqsUpTo(S, n) == UNION {[1..k -> S] : k \in 0..n}

\* every fill carries a closedPnl of its own power of two, so that a sum of
\* closedPnl identifies the fills it was taken over
Tagged(raw) ==
  [i \in 1..Len(raw) |->
     [coin |-> raw[i].coin, side |-> raw[i].side, sz |-> raw[i].sz,
      time |-> raw[i].time, closedPnl |-> NumText(2 ^ (i - 1))]]

Coins == {"X", "Y"}
Sides == {"B", "A"}
\* two times within one second, a third more than an hour later
Times == {0, 400, 3725000}
\* sizes below, at and above the tolerance
Sizes == {1, 2, 4}

ScanFills == [coin : {"X"}, side : Sides, sz : {NumText(n) : n \in Sizes},
              time : Times]

Start(input) ==
  /\ fills = input
  /\ pc = "start"
  /\ coinMap = <<>>
  /\ ci = 0
  /\ fi = 0
  /\ positionSize = Num(0)
  /\ openTime = NoTime
  /\ totalPnL = Num(0)
  /\ positionDirection = "null"
  /\ completedTrades = <<>>
  /\ calls = 1
  /\ previous = <<>>

\* convertOrderBook is not being called
NoConvert ==
  /\ snapshot = NoSnapshot
  /\ precision = "0.001"
  /\ cpc = "idle"
  /\ converted = EmptyBook

\* the page is not mounted
NoPage ==
  /\ orderBook = EmptyBook
  /\ pagePc = "idle"
  /\ delivered = <<>>

\* private maxReconnectAttempts = 5
MaxReconnectAttempts == 5
\* a timer set for each coin's closure: none pending
NoTimers == [c \in Coins |-> 0]
\* no handler has run
NoEffect == [handler |-> "none", coin |-> "null", did |-> "nothing"]

\* new HyperLiquidAPI(): no socket, no coin, no attempt made
NewAPI ==
  /\ ws = 0
  /\ currentCoin = "null"
  /\ reconnectAttempts = 0
  /\ sockets = <<>>
  /\ reconnectTimers = NoTimers
  /\ retryTimers = NoTimers
  /\ wanted = "null"
  /\ effect = NoEffect
  /\ quiet = FALSE
  /\ created = 0
  /\ clientCalls = 0
  /\ opens = 0

\* processCompletedTrades is not being called
NoTrades ==
  /\ fills = <<>>
  /\ pc = "idle"
  /\ coinMap = <<>>
  /\ ci = 0
  /\ fi = 0
  /\ positionSize = Num(0)
  /\ openTime = NoTime
  /\ totalPnL = Num(0)
  /\ positionDirection = "null"
  /\ completedTrades = <<>>
  /\ calls = 0
  /\ previous = <<>>

\* one coin, sizes below, at and above the tolerance
Init ==
  /\ \E raw \in SeqsUpTo(ScanFills, MaxFills) : Start(Tagged(raw))
  /\ NoConvert
  /\ NoPage
  /\ NewAPI

\* two coins, the second with one size
CoinFills ==
  [coin : {"X"}, side : Sides, sz : {NumText(1), NumText(2)}, time : Times]
  \cup [coin : {"Y"}, side : Sides, sz : {NumText(2)}, time : Times]

InitCoins ==
  /\ \E raw \in SeqsUpTo(CoinFills, MaxFills) : Start(Tagged(raw))
  /\ NoConvert
  /\ NoPage
  /\ NewAPI

\* sizes and closedPnl as the texts the provider may send: zero, negative,
\* malformed and missing values included
SizeTexts == {NumText(0), NumText(-2), NumText(2), JunkText, PrefixedText(2)}
PnlTexts == {NumText(1), JunkText, EmptyText}

RawFills ==
  [coin : {"X"}, side : Sides, sz : SizeTexts, time : {0, 400},
   closedPnl : PnlTexts]
  \cup [coin : {"Y"}, side : Sides, sz : {NumText(2)}, time : {400},
        closedPnl : {NumText(4)}]

InitRaw ==
  /\ \E input \in SeqsUpTo(RawFills, MaxRawFills) : Start(input)
  /\ NoConvert
  /\ NoPage
  /\ NewAPI

\* snapshots: up to MaxLevels levels a side, in any order, with well-formed,
\* negative and malformed texts
Levels ==
  [px : {NumText(2), NumText(4)}, sz : {NumText(1), NumText(3)}]
  \cup {[px |-> NumText(4), sz |-> NumText(-1)],
        [px |-> JunkText, sz |-> NumText(1)],
        [px |-> NumText(2), sz |-> JunkText]}
Snapshots ==
  [coin : {"X"}, bids : SeqsUpTo(Levels, MaxLevels),
   asks : SeqsUpTo(Levels, MaxLevels)]
\* parseFloat(pricePrecision) of the page's precision choices
Precisions == {"0.001", "0.01"}

InitConvert ==
  /\ snapshot \in Snapshots
  /\ precision \in Precisions
  /\ cpc = "call"
  /\ converted = EmptyBook
  /\ NoTrades
  /\ NoPage
  /\ NewAPI

(***************************************************************************)
(* The steps of processCompletedTrades.                                    *)
(***************************************************************************)
Locals == [positionSize |-> positionSize, openTime |-> openTime,
           totalPnL |-> totalPnL, positionDirection |-> positionDirection,
           trades |-> completedTrades]

\* if (!fills || fills.length === 0) return completedTrades
ReturnEmpty ==
  /\ pc = "start"
  /\ Len(fills) = 0
  /\ pc' = "done"
  /\ UNCHANGED <<fills, coinMap, ci, fi, positionSize, openTime, totalPnL,
                 positionDirection, completedTrades>>
  /\ UNCHANGED <<callVars, bookVars, pageVars, socketVars>>

\* mutant: the argument itself is sorted before the grouping
GroupFills_SortsInput ==
  /\ pc = "start"
  /\ Len(fills) # 0
  /\ fills' = SortByTime(fills)
  /\ coinMap' = GroupByCoin(fills')
  /\ ci' = 1
  /\ fi' = 0
  /\ pc' = "scan"
  /\ UNCHANGED <<positionSize, openTime, totalPnL, positionDirection,
                 completedTrades>>
  /\ UNCHANGED <<callVars, bookVars, pageVars, socketVars>>

\* fills.forEach(fill => coinMap.get(fill.coin).push(fill))
GroupFills ==
  /\ pc = "start"
  /\ Len(fills) # 0
  /\ coinMap' = GroupByCoin(fills)
  /\ ci' = 1
  /\ fi' = 0
  /\ pc' = "scan"
  /\ UNCHANGED <<fills, positionSize, openTime, totalPnL, positionDirection,
                 completedTrades>>
  /\ UNCHANGED <<callVars, bookVars, pageVars, socketVars>>

\* mutant: the locals are declared outside the coinMap.forEach callback
BeginCoin_KeepsLocals ==
  /\ pc = "scan"
  /\ ci <= Len(coinMap)
  /\ fi = 0
  /\ coinMap' = [coinMap EXCEPT ![ci].fills = SortByTime(@)]
  /\ fi' = 1
  /\ UNCHANGED <<positionSize, openTime, totalPnL, positionDirection>>
  /\ UNCHANGED <<fills, pc, ci, completedTrades>>
  /\ UNCHANGED <<callVars, bookVars, pageVars, socketVars>>

\* entry of the coinMap.forEach callback: sort, then fresh locals
BeginCoin ==
  /\ pc = "scan"
  /\ ci <= Len(coinMap)
  /\ fi = 0
  /\ coinMap' = [coinMap EXCEPT ![ci].fills = SortByTime(@)]
  /\ positionSize' = Num(0)
  /\ openTime' = NoTime
  /\ totalPnL' = Num(0)
  /\ positionDirection' = "null"
  /\ fi' = 1
  /\ UNCHANGED <<fills, pc, ci, completedTrades>>
  /\ UNCHANGED <<callVars, bookVars, pageVars, socketVars>>

\* one call of the coinFills.forEach callback
ProcessFill ==
  /\ pc = "scan"
  /\ ci <= Len(coinMap)
  /\ fi >= 1
  /\ fi <= Len(coinMap[ci].fills)
  /\ LET next == FillStep(Locals, coinMap[ci].fills[fi], coinMap[ci].coin)
     IN /\ positionSize' = next.positionSize
        /\ openTime' = next.openTime
        /\ totalPnL' = next.totalPnL
        /\ positionDirection' = next.positionDirection
        /\ completedTrades' = next.trades
  /\ fi' = fi + 1
  /\ UNCHANGED <<fills, pc, coinMap, ci>>
  /\ UNCHANGED <<callVars, bookVars, pageVars, socketVars>>

\* the coin's fills are exhausted: on to the next coin
EndCoin ==
  /\ pc = "scan"
  /\ ci <= Len(coinMap)
  /\ fi > Len(coinMap[ci].fills)
  /\ ci' = ci + 1
  /\ fi' = 0
  /\ UNCHANGED <<fills, pc, coinMap, positionSize, openTime, totalPnL,
                 positionDirection, completedTrades>>
  /\ UNCHANGED <<callVars, bookVars, pageVars, socketVars>>

\* return completedTrades.sort(...)
SortAndReturn ==
  /\ pc = "scan"
  /\ ci > Len(coinMap)
  /\ completedTrades' = SortByOpening(completedTrades)
  /\ pc' = "done"
  /\ UNCHANGED <<fills, coinMap, ci, fi, positionSize, openTime, totalPnL,
                 positionDirection>>
  /\ UNCHANGED <<callVars, bookVars, pageVars, socketVars>>

Next ==
  \/ ReturnEmpty
  \/ GroupFills
  \/ BeginCoin
  \/ ProcessFill
  \/ EndCoin
  \/ SortAndReturn

(***************************************************************************)
(* A call of convertOrderBook.                                             *)
(***************************************************************************)
Convert ==
  /\ cpc = "call"
  /\ LET r == ConvertOrderBook(snapshot, precision)
     IN /\ converted' = (IF r.threw THEN converted ELSE View(r))
        /\ cpc' = (IF r.threw THEN "threw" ELSE "returned")
  /\ UNCHANGED <<snapshot, precision>>
  /\ UNCHANGED <<tradeVars, callVars, pageVars, socketVars>>

NextConvert == Convert

(***************************************************************************)
(* The OrderBook page.  initializeAPI fetches the book and registers the   *)
(* update callback; handleAssetChange clears the book, fetches the new     *)
(* coin's book and registers a new callback.  The callbacks all do         *)
(* setOrderBook(convertOrderBook(snapshot)).  A callback may be invoked    *)
(* at any time after the mount; delivered lists the snapshots received     *)
(* since orderBook was last set by a handler.                              *)
(***************************************************************************)
\* the fallback data of the handlers, prices in thousandths
FallbackBook ==
  [bids |-> <<[price |-> Num(29400), size |-> Num(100), total |-> Num(100)],
              [price |-> Num(29399), size |-> Num(150), total |-> Num(250)],
              [price |-> Num(29398), size |-> Num(200), total |-> Num(450)]>>,
   asks |-> <<[price |-> Num(29500), size |-> Num(100), total |-> Num(100)],
              [price |-> Num(29501), size |-> Num(150), total |-> Num(250)],
              [price |-> Num(29502), size |-> Num(200), total |-> Num(450)]>>,
   midPrice |-> Num(29450)]

Level(px, sz) == [px |-> NumText(px), sz |-> NumText(sz)]

\* the snapshots the provider sends to the page
PageSnapshots ==
  {[coin |-> "X", bids |-> <<>>, asks |-> <<>>],
   [coin |-> "X", bids |-> <<Level(2, 1)>>, asks |-> <<Level(4, 3)>>],
   [coin |-> "X", bids |-> <<Level(4, 3), Level(2, 1)>>, asks |-> <<>>],
   [coin |-> "Y", bids |-> <<Level(2, 3)>>,
    asks |-> <<Level(4, 1), Level(6, 1)>>]}

InitPage ==
  /\ orderBook = EmptyBook
  /\ pagePc = "mounting"
  /\ delivered = <<>>
  /\ NoTrades
  /\ NoConvert
  /\ NewAPI

\* initializeAPI, getOrderBook resolved
MountFetched(s) ==
  /\ pagePc = "mounting"
  /\ orderBook' = View(ConvertOrderBook(s, "0.001"))
  /\ pagePc' = "live"
  /\ delivered' = <<>>
  /\ UNCHANGED <<tradeVars, callVars, bookVars, socketVars>>

\* initializeAPI, getOrderBook rejected
MountFallback ==
  /\ pagePc = "mounting"
  /\ orderBook' = FallbackBook
  /\ pagePc' = "live"
  /\ delivered' = <<>>
  /\ UNCHANGED <<tradeVars, callVars, bookVars, socketVars>>

\* mutant: the rows of the update are added to the rows on display
OnOrderBookUpdate_Merging(s) ==
  /\ pagePc \in {"live", "changing"}
  /\ Len(delivered) < MaxDeliveries
  /\ orderBook' =
       [bids |-> orderBook.bids \o ConvertOrderBook(s, "0.001").bids,
        asks |-> orderBook.asks \o ConvertOrderBook(s, "0.001").asks,
        midPrice |-> ConvertOrderBook(s, "0.001").midPrice]
  /\ delivered' = Append(delivered, s)
  /\ UNCHANGED pagePc
  /\ UNCHANGED <<tradeVars, callVars, bookVars, socketVars>>

\* the update callback given to connectWebSocket
OnOrderBookUpdate(s) ==
  /\ pagePc \in {"live", "changing"}
  /\ Len(delivered) < MaxDeliveries
  /\ orderBook' = View(ConvertOrderBook(s, "0.001"))
  /\ delivered' = Append(delivered, s)
  /\ UNCHANGED pagePc
  /\ UNCHANGED <<tradeVars, callVars, bookVars, socketVars>>

\* handleAssetChange up to its await
AssetChangeClear ==
  /\ pagePc = "live"
  /\ orderBook' = EmptyBook
  /\ pagePc' = "changing"
  /\ delivered' = <<>>
  /\ UNCHANGED <<tradeVars, callVars, bookVars, socketVars>>

\* handleAssetChange, getOrderBook resolved
AssetChangeFetched(s) ==
  /\ pagePc = "changing"
  /\ orderBook' = View(ConvertOrderBook(s, "0.001"))
  /\ pagePc' = "live"
  /\ delivered' = <<>>
  /\ UNCHANGED <<tradeVars, callVars, bookVars, socketVars>>

\* handleAssetChange, getOrderBook rejected
AssetChangeFallback ==
  /\ pagePc = "changing"
  /\ orderBook' = FallbackBook
  /\ pagePc' = "live"
  /\ delivered' = <<>>
  /\ UNCHANGED <<tradeVars, callVars, bookVars, socketVars>>

NextPage ==
  \/ \E s \in PageSnapshots : MountFetched(s)
  \/ MountFallback
  \/ \E s \in PageSnapshots : OnOrderBookUpdate(s)
  \/ AssetChangeClear
  \/ \E s \in PageSnapshots : AssetChangeFetched(s)
  \/ AssetChangeFallback

(***************************************************************************)
(* A caller that converts a snapshot and calls processCompletedTrades      *)
(* twice with the same array.  Every variable of processCompletedTrades    *)
(* is a local of the call: the second call starts from fresh ones.         *)
(***************************************************************************)
PureFills == [coin : Coins, side : Sides, sz : {NumText(2)}, time : {0, 400}]

InitPure ==
  /\ \E raw \in SeqsUpTo(PureFills, MaxFills) : Start(Tagged(raw))
  /\ snapshot \in PageSnapshots
  /\ precision = "0.001"
  /\ cpc = "call"
  /\ converted = EmptyBook
  /\ NoPage
  /\ NewAPI

CallAgain ==
  /\ pc = "done"
  /\ calls = 1
  /\ previous' = completedTrades
  /\ calls' = 2
  /\ pc' = "start"
  /\ coinMap' = <<>>
  /\ ci' = 0
  /\ fi' = 0
  /\ positionSize' = Num(0)
  /\ openTime' = NoTime
  /\ totalPnL' = Num(0)
  /\ positionDirection' = "null"
  /\ completedTrades' = <<>>
  /\ UNCHANGED fills
  /\ UNCHANGED <<bookVars, pageVars, socketVars>>

NextPure ==
  \/ ReturnEmpty
  \/ GroupFills
  \/ BeginCoin
  \/ ProcessFill
  \/ EndCoin
  \/ SortAndReturn
  \/ CallAgain
  \/ Convert

(***************************************************************************)
(* The WebSocket client of an instance of HyperLiquidAPI.                  *)
(*                                                                         *)
(* sockets lists, in order of creation, the WebSocket objects the          *)
(* instance has created and that can still run a handler or are referred   *)
(* to by the field ws; ws is the index of the one the field refers to, 0   *)
(* for null.  A socket that is CLOSED and that ws does not refer to is     *)
(* dropped from the list.  A socket carries the coin of the closure of     *)
(* its handlers, its readyState, whether its open event has been           *)
(* dispatched and whether a subscribe message has been sent on it.         *)
(* close() puts a connecting or                                            *)
(* open socket in CLOSING; its close event is dispatched later, in a task  *)
(* of its own.  A message event is dispatched on an OPEN socket only.  The *)
(* open event of a socket is dispatched once; the task that dispatches it  *)
(* may have been queued before close() was called on the connecting        *)
(* socket, so it may run on a socket that is CLOSING.                      *)
(*                                                                         *)
(* reconnectTimers[c] and retryTimers[c] count the pending timers whose    *)
(* closure holds coin c: the timers set by reconnect and by                *)
(* sendSubscription.                                                       *)
(***************************************************************************)
MaxCalls == 2
MaxOpens == 2

\* new WebSocket(HYPERLIQUID_WS_BASE), with its handlers' coin
NewSocket(coin) ==
  [coin |-> coin, readyState |-> "CONNECTING", opened |-> FALSE,
   subscribed |-> FALSE]

\* if (this.ws) { this.ws.close() }
Close(socks, i) ==
  IF i # 0 /\ socks[i].readyState \in {"CONNECTING", "OPEN"}
  THEN [socks EXCEPT ![i].readyState = "CLOSING"]
  ELSE socks

\* the sockets but the i-th
Without(socks, i) ==
  [k \in 1..(Len(socks) - 1) |-> IF k < i THEN socks[k] ELSE socks[k + 1]]

\* the field ws stops referring to socket i: a CLOSED socket is dropped
Release(socks, i) ==
  IF i # 0 /\ socks[i].readyState = "CLOSED" THEN Without(socks, i) ELSE socks

\* what the last handler did
Effect(handler, coin, did) == [handler |-> handler, coin |-> coin, did |-> did]

\* the body of connectWebSocket(coin, ...)
ConnectWebSocket(coin) ==
  /\ currentCoin' = coin
  /\ sockets' = Append(Release(Close(sockets, ws), ws), NewSocket(coin))
  /\ ws' = Len(sockets')

\* the client calls connectWebSocket(coin, ...); last: it makes no call after
ClientConnect(coin, last) ==
  /\ ~quiet
  /\ clientCalls < MaxCalls
  /\ ConnectWebSocket(coin)
  /\ wanted' = coin
  /\ clientCalls' = clientCalls + 1
  /\ quiet' = last
  /\ created' = 0
  /\ effect' = Effect("connectWebSocket", coin, "connect")
  /\ UNCHANGED <<reconnectAttempts, reconnectTimers, retryTimers, opens>>
  /\ UNCHANGED <<tradeVars, callVars, bookVars, pageVars>>

\* the client calls disconnect()
Disconnect ==
  /\ ~quiet
  /\ clientCalls < MaxCalls
  /\ sockets' = Release(Close(sockets, ws), ws)
  /\ ws' = 0
  /\ currentCoin' = "null"
  /\ wanted' = "null"
  /\ clientCalls' = clientCalls + 1
  /\ effect' = Effect("disconnect", "null", "close")
  /\ UNCHANGED <<reconnectAttempts, reconnectTimers, retryTimers, quiet,
                 created, opens>>
  /\ UNCHANGED <<tradeVars, callVars, bookVars, pageVars>>

\* mutant: the test of readyState is dropped
SendSubscription_NotReady(coin, socks) ==
  IF ws # 0 /\ currentCoin = coin THEN "subscribe"
  ELSE IF currentCoin # coin THEN "abort"
  ELSE "retry"

\* sendSubscription of the closure of coin: which branch it takes
SendSubscription(coin, socks) ==
  IF ws # 0 /\ socks[ws].readyState = "OPEN" /\ currentCoin = coin
  THEN "subscribe"
  ELSE IF currentCoin # coin THEN "abort"
  ELSE "retry"

\* this.ws.send(subscribe) when that branch is taken
Sent(socks, did) ==
  IF did = "subscribe" THEN [socks EXCEPT ![ws].subscribed = TRUE] ELSE socks

\* onopen of socket s
OnOpen(s) ==
  /\ ~quiet
  /\ opens < MaxOpens
  /\ ~sockets[s].opened
  /\ sockets[s].readyState \in {"CONNECTING", "CLOSING"}
  /\ LET open == [sockets EXCEPT
                    ![s].opened = TRUE,
                    ![s].readyState = IF @ = "CONNECTING" THEN "OPEN" ELSE @]
         coin == sockets[s].coin
         did == SendSubscription(coin, open)
     IN /\ sockets' = Sent(open, did)
        /\ retryTimers' = (IF did = "retry"
                           THEN [retryTimers EXCEPT ![coin] = @ + 1]
                           ELSE retryTimers)
        /\ effect' = Effect("onopen", coin, did)
  /\ reconnectAttempts' = 0
  /\ opens' = opens + 1
  /\ UNCHANGED <<ws, currentCoin, reconnectTimers, wanted, quiet, created,
                 clientCalls>>
  /\ UNCHANGED <<tradeVars, callVars, bookVars, pageVars>>

\* the timer set by sendSubscription fires: sendSubscription again
SendSubscriptionRetry(coin) ==
  /\ retryTimers[coin] > 0
  /\ LET did == SendSubscription(coin, sockets)
     IN /\ sockets' = Sent(sockets, did)
        /\ retryTimers' = (IF did = "retry"
                           THEN retryTimers
                           ELSE [retryTimers EXCEPT ![coin] = @ - 1])
        /\ effect' = Effect("sendSubscription", coin, did)
  /\ UNCHANGED <<ws, currentCoin, reconnectAttempts, reconnectTimers, wanted,
                 quiet, created, clientCalls, opens>>
  /\ UNCHANGED <<tradeVars, callVars, bookVars, pageVars>>

\* the channels of the messages the provider sends
Channels == {"l2Book", "subscriptionResponse"}

\* onmessage of socket s; an l2Book message answers a subscription
OnMessage(s, channel) ==
  /\ sockets[s].readyState = "OPEN"
  /\ channel = "l2Book" => sockets[s].subscribed
  /\ effect' = Effect("onmessage", sockets[s].coin,
                      IF channel = "l2Book" /\ currentCoin = sockets[s].coin
                      THEN "callback" ELSE "ignore")
  /\ UNCHANGED <<ws, currentCoin, reconnectAttempts, sockets, reconnectTimers,
                 retryTimers, wanted, quiet, created, clientCalls, opens>>
  /\ UNCHANGED <<tradeVars, callVars, bookVars, pageVars>>

\* onerror of socket s
OnError(s) ==
  /\ sockets[s].readyState # "CLOSED"
  /\ effect' = Effect("onerror", sockets[s].coin, "onError")
  /\ UNCHANGED <<ws, currentCoin, reconnectAttempts, sockets, reconnectTimers,
                 retryTimers, wanted, quiet, created, clientCalls, opens>>
  /\ UNCHANGED <<tradeVars, callVars, bookVars, pageVars>>

\* mutant: <= instead of <
Reconnect_AtMost(coin) ==
  IF reconnectAttempts <= MaxReconnectAttempts
  THEN /\ reconnectAttempts' = reconnectAttempts + 1
       /\ reconnectTimers' = [reconnectTimers EXCEPT ![coin] = @ + 1]
  ELSE UNCHANGED <<reconnectAttempts, reconnectTimers>>

\* mutant: two timers are set for an attempt
Reconnect_TwoTimers(coin) ==
  IF reconnectAttempts < MaxReconnectAttempts
  THEN /\ reconnectAttempts' = reconnectAttempts + 1
       /\ reconnectTimers' = [reconnectTimers EXCEPT ![coin] = @ + 2]
  ELSE UNCHANGED <<reconnectAttempts, reconnectTimers>>

\* reconnect(coin, ...)
Reconnect(coin) ==
  IF reconnectAttempts < MaxReconnectAttempts
  THEN /\ reconnectAttempts' = reconnectAttempts + 1
       /\ reconnectTimers' = [reconnectTimers EXCEPT ![coin] = @ + 1]
  ELSE UNCHANGED <<reconnectAttempts, reconnectTimers>>

\* onclose of socket s: the close event, after close() or a failure
OnClose(s) ==
  /\ sockets[s].readyState # "CLOSED"
  /\ sockets' = (IF s = ws
                 THEN [sockets EXCEPT ![s].readyState = "CLOSED"]
                 ELSE Without(sockets, s))
  /\ ws' = (IF ws > s THEN ws - 1 ELSE ws)
  /\ Reconnect(sockets[s].coin)
  /\ effect' = Effect("onclose", sockets[s].coin,
                      IF reconnectTimers' # reconnectTimers
                      THEN "reconnect" ELSE "giveUp")
  /\ UNCHANGED <<currentCoin, retryTimers, wanted, quiet, created,
                 clientCalls, opens>>
  /\ UNCHANGED <<tradeVars, callVars, bookVars, pageVars>>

\* the timer set by reconnect fires: connectWebSocket(coin, ...)
ReconnectTimer(coin) ==
  /\ reconnectTimers[coin] > 0
  /\ reconnectTimers' = [reconnectTimers EXCEPT ![coin] = @ - 1]
  /\ ConnectWebSocket(coin)
  /\ created' = (IF quiet THEN created + 1 ELSE created)
  /\ effect' = Effect("setTimeout", coin, "connect")
  /\ UNCHANGED <<reconnectAttempts, retryTimers, wanted, quiet,
                 clientCalls, opens>>
  /\ UNCHANGED <<tradeVars, callVars, bookVars, pageVars>>

InitSocket ==
  /\ NewAPI
  /\ NoTrades
  /\ NoConvert
  /\ NoPage

NextSocket ==
  \/ \E coin \in Coins, last \in BOOLEAN : ClientConnect(coin, last)
  \/ Disconnect
  \/ \E s \in 1..Len(sockets) : OnOpen(s)
  \/ \E coin \in Coins : SendSubscriptionRetry(coin)
  \/ \E s \in 1..Len(sockets), channel \in Channels : OnMessage(s, channel)
  \/ \E s \in 1..Len(sockets) : OnError(s)
  \/ \E s \in 1..Len(sockets) : OnClose(s)
  \/ \E coin \in Coins : ReconnectTimer(coin)

Spec == Init /\ [][Next]_vars
SpecPure == InitPure /\ [][NextPure]_vars
SpecPage == InitPage /\ [][NextPage]_vars
SpecConvert == InitConvert /\ [][NextConvert]_vars
SpecCoins == InitCoins /\ [][Next]_vars
SpecRaw == InitRaw /\ [][Next]_vars
SpecSocket == InitSocket /\ [][NextSocket]_vars
\* every close event is dispatched and every timer fires
SpecReconnect ==
  /\ SpecSocket
  /\ WF_vars(\E s \in 1..Len(sockets) : OnClose(s))
  /\ WF_vars(\E coin \in Coins : ReconnectTimer(coin))

\* the stepwise scan returns what the function returns
StepsAgree == pc = "done" => completedTrades = ProcessCompletedTrades(fills)

(***************************************************************************)
(* Vocabulary of the properties, defined from the input alone.             *)
(***************************************************************************)
OfCoin(c) == SelectSeq(fills, LAMBDA f : f.coin = c)

\* the place of fill i in time order, equal times in input order
Rank(fs, i) ==
  Cardinality({j \in 1..Len(fs) :
                 \/ fs[j].time < fs[i].time
                 \/ fs[j].time = fs[i].time /\ j <= i})

InTimeOrder(fs) ==
  [r \in 1..Len(fs) |-> fs[CHOOSE i \in 1..Len(fs) : Rank(fs, i) = r]]

DistinctTimes(fs) ==
  \A i, j \in 1..Len(fs) : i # j => fs[i].time # fs[j].time

WellFormed(fs) == \A i \in 1..Len(fs) : fs[i].sz.kind = "num"

Signed(f) == IF f.side = "B" THEN f.sz.v ELSE -f.sz.v

\* the net position after the first k fills of s
RECURSIVE NetPos(_, _)
NetPos(s, k) == IF k = 0 THEN 0 ELSE NetPos(s, k - 1) + Signed(s[k])

Abs(n) == IF n < 0 THEN -n ELSE n
Flat(n) == Abs(n) < Epsilon

RECURSIVE SumPnl(_, _)
SumPnl(s, k) == IF k = 0 THEN 0 ELSE SumPnl(s, k - 1) + s[k].closedPnl.v

SideDirection(f) == IF f.side = "B" THEN "long" ELSE "short"

\* the fills of s whose time lies in [from, to]
Within(s, from, to) == SelectSeq(s, LAMBDA f : from <= f.time /\ f.time <= to)

Done == pc = "done"
\* a call of the forEach callback is taking place
FillIsProcessed == pc = "scan" /\ fi >= 1 /\ fi' = fi + 1

(***************************************************************************)
(* C1 (as stated).  A single coin, distinct timestamps, positive sizes,    *)
(* the net position non-zero after every fill but the last and exactly     *)
(* zero after the last: one trade is returned, long if the first fill (in  *)
(* time order) is a Buy and short if it is a Sell, opened at the first     *)
(* fill's time, lasting from the first to the last fill, with the sum of   *)
(* closedPnl of all the fills as realizedPnL.                              *)
(***************************************************************************)
OneRoundTrip(s) ==
  /\ Len(completedTrades) = 1
  /\ completedTrades[1].coin = s[1].coin
  /\ completedTrades[1].direction = SideDirection(s[1])
  /\ completedTrades[1].openingTime = ToLocaleString(s[1].time)
  /\ completedTrades[1].duration = FormatDuration(s[Len(s)].time - s[1].time)
  /\ completedTrades[1].realizedPnL = Num(SumPnl(s, Len(s)))

C1_ZeroOnlyAtLast ==
  LET s == InTimeOrder(fills)
      n == Len(s)
  IN (/\ Done
      /\ n >= 1
      /\ DistinctTimes(fills)
      /\ \A k \in 1..(n - 1) : NetPos(s, k) # 0
      /\ NetPos(s, n) = 0)
     => OneRoundTrip(s)

(***************************************************************************)
(* C1 (amended).  As C1, the net position staying at least 0.0001 away     *)
(* from zero after every fill but the last and being exactly zero after    *)
(* the last; the opening time is the first fill's time as rendered by      *)
(* toLocaleString and the duration is the time from the first to the last  *)
(* fill in whole hours and minutes.                                        *)
(***************************************************************************)
C1_FlatOnlyAtLast ==
  LET s == InTimeOrder(fills)
      n == Len(s)
  IN (/\ Done
      /\ n >= 1
      /\ DistinctTimes(fills)
      /\ \A k \in 1..(n - 1) : ~Flat(NetPos(s, k))
      /\ NetPos(s, n) = 0)
     => OneRoundTrip(s)

\* a round trip of three fills, given out of time order, that took over an hour
C1_Witness ==
  LET s == InTimeOrder(fills)
  IN /\ Done
     /\ Len(fills) = 3
     /\ DistinctTimes(fills)
     /\ fills # s
     /\ \A k \in 1..2 : ~Flat(NetPos(s, k))
     /\ NetPos(s, 3) = 0
     /\ Len(completedTrades) = 1
     /\ completedTrades[1].duration = <<1, 2>>

(***************************************************************************)
(* The cycle of a returned trade: the fills of its coin, in time order,    *)
(* from the fill at which it was opened to the fill at which it was        *)
(* pushed.                                                                 *)
(***************************************************************************)
CycleOf(t) == Within(InTimeOrder(OfCoin(t.coin)), t.openTime, t.closeTime)

(***************************************************************************)
(* C2.  When a coin's position is closed and later opened and closed       *)
(* again, two trades are returned and each trade's realizedPnL, direction  *)
(* and opening time come from the fills of its own cycle only.             *)
(***************************************************************************)
C2_CyclesIndependent ==
  (Done /\ DistinctTimes(fills) /\ Len(completedTrades) >= 2)
  => \A i \in 1..Len(completedTrades) :
       LET t == completedTrades[i]
           cyc == CycleOf(t)
       IN /\ t.realizedPnL = Num(SumPnl(cyc, Len(cyc)))
          /\ t.direction = SideDirection(cyc[1])
          /\ t.openingTime = ToLocaleString(cyc[1].time)

(***************************************************************************)
(* C3.  No trade is pushed for a trailing open cycle: a fill that comes    *)
(* after the last fill at which the coin's net position is flat pushes     *)
(* nothing, and a coin whose net position is flat after none of its fills  *)
(* has no trade.                                                           *)
(***************************************************************************)
LastFlat(s) ==
  LET flats == {k \in 1..Len(s) : Flat(NetPos(s, k))}
  IN IF flats = {} THEN 0 ELSE CHOOSE k \in flats : \A j \in flats : j <= k

NeverFlat(c) == OfCoin(c) # <<>> /\ LastFlat(InTimeOrder(OfCoin(c))) = 0

TradesOf(c) == SelectSeq(completedTrades, LAMBDA t : t.coin = c)

C3_NoTradeForOpenTail ==
  /\ [](\A c \in Coins : NeverFlat(c) => TradesOf(c) = <<>>)
  /\ [][(/\ FillIsProcessed
          /\ fi > LastFlat(InTimeOrder(OfCoin(coinMap[ci].coin))))
         => completedTrades' = completedTrades]_vars

\* the scan of a coin has ended with the position open, after a closed cycle
C3_Witness ==
  /\ pc = "scan"
  /\ ci = 1
  /\ fi = 4
  /\ Len(coinMap[ci].fills) = 3
  /\ ~Flat(NetPos(InTimeOrder(fills), 3))
  /\ openTime # NoTime
  /\ Len(completedTrades) = 1

(***************************************************************************)
(* C6.  A cycle ends whenever the position reaches or crosses zero: a      *)
(* fill that takes an open position from one sign to the other, without    *)
(* landing on zero, ends the current cycle, so that no trade spans a sign  *)
(* change.                                                                 *)
(***************************************************************************)
C6_SignChangeEndsCycle ==
  [][(/\ FillIsProcessed
      /\ openTime # NoTime
      /\ LET s == InTimeOrder(OfCoin(coinMap[ci].coin))
         IN NetPos(s, fi - 1) * NetPos(s, fi) < 0)
     => Len(completedTrades') = Len(completedTrades) + 1]_vars

(***************************************************************************)
(* C7.  A trade is pushed at a fill exactly when, the fill applied, the    *)
(* position is open (the open time was set before, or the net position is  *)
(* now non-zero) and the net position is below the tolerance; exactly one  *)
(* trade is pushed then, and no other step of the scan pushes one.         *)
(***************************************************************************)
C7_PushIffOpenToFlat ==
  [][IF FillIsProcessed
     THEN LET p == NetPos(InTimeOrder(OfCoin(coinMap[ci].coin)), fi)
          IN IF (openTime # NoTime \/ p # 0) /\ Flat(p)
             THEN /\ Len(completedTrades') = Len(completedTrades) + 1
                  /\ SubSeq(completedTrades', 1, Len(completedTrades))
                       = completedTrades
             ELSE completedTrades' = completedTrades
     ELSE Len(completedTrades') = Len(completedTrades)]_vars

\* the third fill of a coin has just closed a cycle opened by the first
C7_Witness ==
  /\ pc = "scan"
  /\ fi = 4
  /\ Len(completedTrades) = 1
  /\ completedTrades[1].openTime = coinMap[ci].fills[1].time
  /\ completedTrades[1].closeTime = coinMap[ci].fills[3].time
  /\ openTime = NoTime

(***************************************************************************)
(* C8.  The direction of a returned trade is that of the fill on which     *)
(* its position left flat: Buy gives long, Sell gives short.               *)
(***************************************************************************)
C8_DirectionOfOpeningFill ==
  (Done /\ DistinctTimes(fills))
  => \A i \in 1..Len(completedTrades) :
       completedTrades[i].direction
         = SideDirection(CycleOf(completedTrades[i])[1])

(***************************************************************************)
(* C4.  Shuffling the input does not change the output: for every fill     *)
(* list and every permutation of it, fills of one coin sharing a           *)
(* timestamp included, the same trades are returned.                       *)
(***************************************************************************)
Permute(fs, p) == [i \in 1..Len(fs) |-> fs[p[i]]]

C4_ShuffleInvariant ==
  Done => \A p \in Permutations(1..Len(fills)) :
            ReturnedList(ProcessCompletedTrades(Permute(fills, p)))
              = ReturnedList(completedTrades)

(***************************************************************************)
(* C5.  The returned list is in descending order of the millisecond at     *)
(* which each trade's position was opened.                                 *)
(***************************************************************************)
C5_DescendingByOpenMillisecond ==
  Done => \A i, j \in 1..Len(completedTrades) :
            completedTrades[i].openTime > completedTrades[j].openTime => i < j

(***************************************************************************)
(* C9.  A fill of zero or negative size makes the call fail: the call      *)
(* never returns a list when such a fill is in the input.                  *)
(***************************************************************************)
InvalidSize(f) == f.sz.kind = "num" /\ f.sz.v <= 0

C9_InvalidSizeFails ==
  Done => \A i \in 1..Len(fills) : ~InvalidSize(fills[i])

(***************************************************************************)
(* C10.  A fill whose size or closedPnl is not numeric aborts the call     *)
(* for the whole input: no list, partial or otherwise, is returned.        *)
(***************************************************************************)
NotNumeric(s) == s.kind \in {"junk", "prefixed"}

C10_MalformedFillAborts ==
  Done => \A i \in 1..Len(fills) :
            ~NotNumeric(fills[i].sz) /\ ~NotNumeric(fills[i].closedPnl)

(***************************************************************************)
(* Vocabulary of the order book properties, defined from the snapshot.     *)
(***************************************************************************)
Returns == cpc = "returned"

Numeric(s) == s.kind = "num"

\* the sum of the sizes of the first i levels, NaN if one is not a number
RECURSIVE IntSum(_, _)
IntSum(levels, i) == IF i = 0 THEN 0 ELSE IntSum(levels, i - 1) + levels[i].sz.v

SumOfSizes(levels, i) ==
  IF \A j \in 1..i : levels[j].sz.kind \in {"num", "prefixed"}
  THEN Num(IntSum(levels, i)) ELSE NaN

NumberOf(s) == IF s.kind \in {"num", "prefixed"} THEN Num(s.v) ELSE NaN

\* a <= b
FLeq(a, b) == ~a.nan /\ ~b.nan /\ a.v <= b.v

(***************************************************************************)
(* C11.  For each side, convertOrderBook returns one row per level, in     *)
(* the order of the levels, with the level's price and size, and row i's   *)
(* total is the sum of the sizes of the levels up to and including i.      *)
(***************************************************************************)
RowsOf(rows, levels) ==
  /\ Len(rows) = Len(levels)
  /\ \A i \in 1..Len(levels) :
       /\ rows[i].price = NumberOf(levels[i].px)
       /\ rows[i].size = NumberOf(levels[i].sz)
       /\ rows[i].total = SumOfSizes(levels, i)

C11_RowPerLevelRunningTotal ==
  Returns => /\ RowsOf(converted.bids, snapshot.bids)
             /\ RowsOf(converted.asks, snapshot.asks)

\* two asks out of price order and two bids of different sizes
C11_Witness ==
  /\ Returns
  /\ Len(snapshot.asks) = 2
  /\ snapshot.asks[1].px = NumText(4)
  /\ snapshot.asks[2].px = NumText(2)
  /\ Len(snapshot.bids) = 2
  /\ converted.bids[1].total = Num(3)
  /\ converted.bids[2].total = Num(4)

(***************************************************************************)
(* C12.  On every non-empty side of every snapshot the totals are          *)
(* non-decreasing from the first row to the last.                          *)
(***************************************************************************)
NonDecreasing(rows) ==
  \A i \in 1..Len(rows) : \A j \in i..Len(rows) :
    FLeq(rows[i].total, rows[j].total)

C12_TotalsNonDecreasing ==
  Returns => NonDecreasing(converted.bids) /\ NonDecreasing(converted.asks)

(***************************************************************************)
(* C13.  When both sides are non-empty, midPrice is the half of the sum    *)
(* of the first bid's price and the first ask's price, whatever the other  *)
(* levels and the precision argument are.                                  *)
(***************************************************************************)
HalfSum(a, b) ==
  IF a.kind = "junk" \/ b.kind = "junk" THEN NaN ELSE Num((a.v + b.v) \div 2)

C13_MidOfBestPrices ==
  (Returns /\ snapshot.bids # <<>> /\ snapshot.asks # <<>>)
  => converted.midPrice = HalfSum(snapshot.bids[1].px, snapshot.asks[1].px)

\* the best prices differ from each other and from the second levels' prices
C13_Witness ==
  /\ Returns
  /\ precision = "0.01"
  /\ Len(snapshot.bids) = 2
  /\ Len(snapshot.asks) = 2
  /\ snapshot.bids[1].px = NumText(2)
  /\ snapshot.bids[2].px = NumText(4)
  /\ snapshot.asks[1].px = NumText(4)
  /\ snapshot.asks[2].px = NumText(2)
  /\ converted.midPrice = Num(3)

(***************************************************************************)
(* C14.  When a side is empty the call does not throw: it returns the      *)
(* midPrice 0 and the rows of the side that is not empty.                  *)
(***************************************************************************)
C14_EmptySideGivesZero ==
  (cpc # "call" /\ (snapshot.bids = <<>> \/ snapshot.asks = <<>>))
  => /\ Returns
     /\ converted.midPrice = Num(0)
     /\ Len(converted.bids) = Len(snapshot.bids)
     /\ Len(converted.asks) = Len(snapshot.asks)

\* no bids, two asks
C14_Witness ==
  /\ Returns
  /\ snapshot.bids = <<>>
  /\ Len(snapshot.asks) = 2
  /\ Len(converted.asks) = 2
  /\ converted.midPrice = Num(0)

(***************************************************************************)
(* C15.  A level whose px or sz is a malformed numeric text makes the     *)
(* call fail: it never returns a view when such a level is in the input.   *)
(***************************************************************************)
MalformedLevel(l) == NotNumeric(l.px) \/ NotNumeric(l.sz)

C15_MalformedLevelFails ==
  Returns => /\ \A i \in 1..Len(snapshot.bids) : ~MalformedLevel(snapshot.bids[i])
             /\ \A i \in 1..Len(snapshot.asks) : ~MalformedLevel(snapshot.asks[i])

(***************************************************************************)
(* C16.  After any sequence of snapshots delivered to the page, the        *)
(* order book on display is convertOrderBook of the snapshot delivered     *)
(* last, alone: every update replaces bids, asks and midPrice as a whole.  *)
(***************************************************************************)
C16_LastSnapshotWins ==
  delivered # <<>>
  => \A prec \in Precisions :
       orderBook = View(ConvertOrderBook(delivered[Len(delivered)], prec))

\* a snapshot with fewer levels has replaced one with more
C16_Witness ==
  /\ Len(delivered) = 3
  /\ Len(delivered[2].asks) = 2
  /\ delivered[3].asks = <<>>
  /\ delivered[3].bids # <<>>
  /\ orderBook.asks = <<>>
  /\ Len(orderBook.bids) = 2

(***************************************************************************)
(* C17.  processCompletedTrades and convertOrderBook leave their           *)
(* arguments as they were, the order of the fills array included, and a    *)
(* second call with the same argument returns what the first returned.     *)
(***************************************************************************)
C17_ArgumentsUntouched ==
  /\ [][fills' = fills /\ snapshot' = snapshot /\ precision' = precision]_vars
  /\ []((Done /\ calls = 2) => completedTrades = previous)

\* both calls have returned trades for an array that was not in time order
C17_Witness ==
  /\ Done
  /\ calls = 2
  /\ cpc = "returned"
  /\ fills # SortByTime(fills)
  /\ Len(completedTrades) = 1
  /\ previous = completedTrades
  /\ Len(snapshot.asks) = 2

(***************************************************************************)
(* C18.  Immediately after a trade is pushed the locals of the scan are    *)
(* in the empty state: position size exactly 0, no open time, no           *)
(* direction, total PnL 0.                                                 *)
(***************************************************************************)
C18_EmptyAfterPush ==
  [][(FillIsProcessed /\ Len(completedTrades') = Len(completedTrades) + 1)
     => /\ positionSize' = Num(0)
        /\ openTime' = NoTime
        /\ positionDirection' = "null"
        /\ totalPnL' = Num(0)]_vars

(***************************************************************************)
(* C19.  A coin whose only fill has size 0 has no trade.                   *)
(***************************************************************************)
OnlyFillOfSizeZero(c) ==
  /\ Len(OfCoin(c)) = 1
  /\ OfCoin(c)[1].sz \in {NumText(0), PrefixedText(0)}

C19_ZeroSizeFillNoTrade ==
  Done => \A c \in Coins : OnlyFillOfSizeZero(c) => TradesOf(c) = <<>>

\* the call has returned for a zero-size fill of X next to a fill of Y
C19_Witness ==
  /\ Done
  /\ Len(fills) = 2
  /\ OnlyFillOfSizeZero("X")
  /\ Len(OfCoin("Y")) = 1
  /\ TradesOf("X") = <<>>

(***************************************************************************)
(* C20.  Fills of one coin that share a timestamp are scanned in the       *)
(* order of the input list: the grouping keeps each coin's fills in input  *)
(* order and the sort by time is stable.                                   *)
(***************************************************************************)
C20_TiesInInputOrder ==
  (pc = "scan" /\ ci <= Len(coinMap))
  => IF fi = 0
     THEN coinMap[ci].fills = OfCoin(coinMap[ci].coin)
     ELSE coinMap[ci].fills = InTimeOrder(OfCoin(coinMap[ci].coin))

\* two fills of X with one timestamp, a Sell given before a Buy and a fill of
\* Y between them, are being scanned
C20_Witness ==
  /\ pc = "scan"
  /\ ci <= Len(coinMap)
  /\ fi = 2
  /\ Len(fills) = 3
  /\ fills[1].coin = "X" /\ fills[1].side = "A"
  /\ fills[2].coin = "Y"
  /\ fills[3].coin = "X" /\ fills[3].side = "B"
  /\ fills[1].time = fills[3].time
  /\ coinMap[ci].fills = <<fills[1], fills[3]>>

(***************************************************************************)
(* C21.  Coins are reconstructed independently: the trades returned for a  *)
(* coin (number, direction, opening time, duration, PnL, in the order      *)
(* returned) are the trades returned for that coin's fills given alone,    *)
(* whatever the fills of the other coins and wherever they stand.          *)
(***************************************************************************)
C21_CoinsIndependent ==
  Done => \A c \in Coins :
            ReturnedList(TradesOf(c))
              = ReturnedList(ProcessCompletedTrades(OfCoin(c)))

\* the call has returned the round trip of X, a Buy and a Sell of X given with
\* a fill of Y between them, and no trade for Y
C21_Witness ==
  /\ Done
  /\ Len(fills) = 3
  /\ fills[1].coin = "X" /\ fills[1].side = "B" /\ fills[1].sz = NumText(2)
  /\ fills[2].coin = "Y"
  /\ fills[3].coin = "X" /\ fills[3].side = "A" /\ fills[3].sz = NumText(2)
  /\ fills[1].time < fills[3].time
  /\ Len(TradesOf("X")) = 1
  /\ TradesOf("Y") = <<>>

(***************************************************************************)
(* C22.  Every returned trade is a round trip: the fills of its cycle      *)
(* include a Buy and a Sell, so that a fill on its own, whatever its       *)
(* size, gives no trade.                                                   *)
(***************************************************************************)
HasSide(s, side) == \E k \in 1..Len(s) : s[k].side = side

C22_TradeHasBuyAndSell ==
  (Done /\ DistinctTimes(fills))
  => \A i \in 1..Len(completedTrades) :
       /\ HasSide(CycleOf(completedTrades[i]), "B")
       /\ HasSide(CycleOf(completedTrades[i]), "A")

(***************************************************************************)
(* Vocabulary of the properties of the WebSocket client.                   *)
(***************************************************************************)
\* the client's last call was disconnect()
Disconnected == clientCalls > 0 /\ wanted = "null"
\* the step is not a call of the client
NoClientCall == clientCalls' = clientCalls
\* the last handler invoked the update callback, sent a subscribe message
CallbackInvoked == effect.did = "callback"
SubscribeSent == effect.did = "subscribe"

(***************************************************************************)
(* C23.  After disconnect() and until the client's next connectWebSocket,  *)
(* no WebSocket is created (the field ws, which every new socket is        *)
(* assigned to, stays null) and currentCoin stays null.                    *)
(***************************************************************************)
C23_NoReconnectAfterDisconnect ==
  Disconnected => (ws = 0 /\ currentCoin = "null")

(***************************************************************************)
(* C24.  After the client's connectWebSocket(B), and until its next call,  *)
(* currentCoin is B and the instance's socket is the connection for B: no  *)
(* close event or timer of a replaced connection sets currentCoin back or  *)
(* replaces that socket by one for another coin.                           *)
(***************************************************************************)
C24_CurrentCoinStays ==
  wanted \in Coins
  => (currentCoin = wanted /\ ws # 0 /\ sockets[ws].coin = wanted)

(***************************************************************************)
(* C25.  reconnectAttempts stays between 0 and 5; it is incremented, by    *)
(* one, only by reconnect (called by a close event) while it is below 5,   *)
(* and set to 0 only by an open event; at 5 a close event sets no timer.   *)
(***************************************************************************)
C25_AttemptsBounded ==
  /\ [](reconnectAttempts \in 0..5)
  /\ [][reconnectAttempts' # reconnectAttempts
        => \/ /\ reconnectAttempts' = reconnectAttempts + 1
              /\ reconnectAttempts < 5
              /\ effect'.handler = "onclose"
           \/ /\ reconnectAttempts' = 0
              /\ effect'.handler = "onopen"]_vars
  /\ [][(reconnectAttempts = 5 /\ effect'.handler = "onclose")
        => reconnectTimers' = reconnectTimers]_vars

\* a close event has found reconnectAttempts at 5 and set no timer
C25_Witness ==
  /\ reconnectAttempts = 5
  /\ effect.handler = "onclose"
  /\ effect.did = "giveUp"
  /\ reconnectTimers = NoTimers

(***************************************************************************)
(* C26.  When the client has made its last call, a connectWebSocket, and  *)
(* no socket has opened or opens: at most 5 further sockets are created,   *)
(* and eventually no reconnect timer is pending, for good.                 *)
(***************************************************************************)
NeverOpened == quiet /\ opens = 0

C26_ReconnectTerminates ==
  /\ [](NeverOpened => created <= 5)
  /\ NeverOpened ~> [](reconnectTimers = NoTimers)

\* the call's socket and 5 further sockets have closed, none has opened, and
\* nothing is pending
C26_Witness ==
  /\ quiet
  /\ clientCalls = 1
  /\ opens = 0
  /\ created = 5
  /\ reconnectTimers = NoTimers
  /\ \A s \in 1..Len(sockets) : sockets[s].readyState = "CLOSED"

(***************************************************************************)
(* C27.  The update callback registered for coin C is invoked only while   *)
(* currentCoin is C and C is the coin the client last connected to: not    *)
(* after the client's disconnect(), nor after its connectWebSocket for     *)
(* another coin.                                                           *)
(***************************************************************************)
C27_CallbackOnlyForClientsCoin ==
  CallbackInvoked => (currentCoin = effect.coin /\ wanted = effect.coin)

(***************************************************************************)
(* C28.  A subscribe message for coin C is sent on the socket the field ws *)
(* refers to, that socket being OPEN and currentCoin being C; a socket     *)
(* whose open event finds currentCoin different from its coin sends no     *)
(* subscribe message and sets no retry timer.                              *)
(***************************************************************************)
C28_SubscribeOnlyWhenCurrent ==
  /\ [](SubscribeSent => /\ ws # 0
                         /\ sockets[ws].readyState = "OPEN"
                         /\ sockets[ws].subscribed
                         /\ currentCoin = effect.coin)
  /\ [][\A s \in 1..Len(sockets) :
          (/\ Len(sockets') = Len(sockets)
           /\ sockets'[s].subscribed
           /\ ~sockets[s].subscribed)
          => (s = ws /\ effect'.did = "subscribe")]_vars
  /\ [][(opens' = opens + 1 /\ currentCoin # effect'.coin)
        => /\ effect'.did = "abort"
           /\ retryTimers' = retryTimers
           /\ \A s \in 1..Len(sockets) :
                sockets'[s].subscribed = sockets[s].subscribed]_vars

\* the socket for X, replaced while connecting, has got its open event after
\* the socket for Y had opened and subscribed: the subscription for X is
\* abandoned
C28_Witness ==
  /\ effect = Effect("onopen", "X", "abort")
  /\ currentCoin = "Y"
  /\ ws # 0
  /\ sockets[ws].readyState = "OPEN"
  /\ sockets[ws].subscribed
  /\ retryTimers = NoTimers

=============================================================================
